---------------------------- MODULE Spec2Model ----------------------------
(***************************************************************************)
(* A model of pixcat: the resize engine and the identifier / resize cache  *)
(* of Image (image.py), the escape-code transmitter of PixTerminal         *)
(* (terminal.py) and the pixel/cell Size type (size.py).                   *)
(*                                                                         *)
(* Four specifications share the variables; each one moves the variables   *)
(* of its own part and leaves the others at their initial values:          *)
(*   SpecResize  the size computation of Image.resize on drawn inputs      *)
(*   SpecImage   Image objects, their identifiers and resize caches        *)
(*   Spec        PixTerminal.run_code / detect_support against a terminal  *)
(*   SpecSize    Size objects under a terminal whose metrics may change    *)
(***************************************************************************)
EXTENDS Integers, Sequences, FiniteSets, TLC

VARIABLES
    term,       \* the terminal's metrics: px_width, px_height, width, height
    rz,         \* SpecResize: one call of Image.resize, its arguments and result
    images,     \* SpecImage: the heap of Image objects ever constructed
    held,       \* SpecImage: references the caller still holds
    ret,        \* SpecImage: what the last Image operation returned
    log,        \* SpecImage: history of (self, w, h, returned ref) of resize calls
    pc,         \* Spec: position of the run_code call in progress
    req,        \* Spec: the controls of the run_code call in progress
    out,        \* Spec: the frames written to stdout: how many, and the last one
    tx,         \* Spec: the reply the terminal is sending
    stdin,      \* Spec: bytes the terminal delivered and nobody read yet
    chars,      \* Spec: run_code's local list of characters read
    timer,      \* Spec: seconds left on the pending SIGALRM, 0 = none pending
    mode,       \* Spec: the tty input mode
    hist,       \* Spec: per-call history (mode at entry, bytes read, frames written...)
    outcome,    \* Spec: how the last run_code call ended
    support,    \* Spec: what detect_support returned
    sizes,      \* SpecSize: the heap of Size objects
    sret,       \* SpecSize: what the last Size operation returned
    enc,        \* SpecCode: one call of get_code, its arguments and result
    grid,       \* SpecGrid: one call of Grid.show in progress
    fit         \* SpecFit: the column-counting loop of Grid.cells_per_row

resizeVars == <<rz>>
imageVars  == <<images, held, ret, log>>
termVars   == <<pc, req, out, tx, stdin, chars, timer, mode, hist, outcome, support>>
sizeVars   == <<sizes, sret>>
codeVars   == <<enc>>
gridVars   == <<grid>>
fitVars    == <<fit>>
vars == <<term, rz, images, held, ret, log, pc, req, out, tx, stdin, chars, timer,
          mode, hist, outcome, support, sizes, sret, enc, grid, fit>>


(***************************************************************************)
(* Bounds of the model.                                                    *)
(***************************************************************************)
MaxDim    == 4      \* intrinsic image sizes are 1..MaxDim on each axis
MaxParam  == 5      \* resize's min/max arguments are at most MaxParam pixels
MaxCells  == 1      \* negative (cell-count) arguments are -MaxCells..-1

(***************************************************************************)
(* Integer helpers: math.floor and math.ceil of a quotient of integers.    *)
(* Python evaluates (a / b) * c in binary floating point; for the operands *)
(* within the bounds above that agrees with the exact quotient a*c/b.      *)
(***************************************************************************)
FloorDiv(a, b) == a \div b
CeilDiv(a, b)  == -((-a) \div b)
Min(a, b) == IF a <= b THEN a ELSE b

(***************************************************************************)
(* terminal.py: TERM.cell_px_size = (px_width // width, px_height // height)*)
(***************************************************************************)
CellPxWidth(t)  == t.px_width \div t.width
CellPxHeight(t) == t.px_height \div t.height


(***************************************************************************)
(* The terminals the model runs under: px_width x px_height pixels shown   *)
(* as width x height cells.                                                *)
(***************************************************************************)
DefaultTerminal == [px_width |-> 8, px_height |-> 6, width |-> 4, height |-> 2]
Terminals ==
    { DefaultTerminal,
      [px_width |-> 10, px_height |-> 9, width |-> 3, height |-> 4] }

(***************************************************************************)
(* image.py: Image._negative_col_to_px / _negative_row_to_px               *)
(***************************************************************************)
NegativeColToPx(num, t) == IF num >= 0 THEN num ELSE CellPxWidth(t) * (-num)
NegativeRowToPx(num, t) == IF num >= 0 THEN num ELSE CellPxHeight(t) * (-num)

(***************************************************************************)
(* image.py: the size computation of Image.resize, lines 140-185.          *)
(* a is the record of arguments [min_w, min_h, max_w, max_h, stretch]; an  *)
(* unset maximum (None) is written 0, which `max_w or self.w` treats alike.*)
(* The result is [kind, w, h]: kind "assert" when one of the two asserts   *)
(* fails, "self" when resize returns the image itself, "scaled" when it    *)
(* goes on to the cache and the resampler with the size (w, h).            *)
(***************************************************************************)
ScaleByWidthKeepW(w0, h0, drive_w, lim_h) ==
    [w |-> drive_w, h |-> Min(lim_h, CeilDiv(drive_w * h0, w0))]
ScaleByWidth(w0, h0, drive_w, lim_h) ==
    \* h = min(lim_h, ceil((drive_w / w0) * h0)); w = floor((h / h0) * w0)
    LET h == Min(lim_h, CeilDiv(drive_w * h0, w0))
    IN  [w |-> FloorDiv(h * w0, h0), h |-> h]

ScaleByHeight(w0, h0, drive_h, lim_w) ==
    \* w = min(lim_w, ceil((drive_h / h0) * w0)); h = floor((w / w0) * h0)
    LET w == Min(lim_w, CeilDiv(drive_h * w0, h0))
    IN  [w |-> w, h |-> FloorDiv(w * h0, w0)]

Upscale(w0, h0, min_w, min_h, max_w, max_h, stretch) ==
    IF stretch THEN [w |-> min_w, h |-> min_h]
    ELSE IF min_w >= min_h THEN ScaleByWidth(w0, h0, min_w, max_h)
    ELSE ScaleByHeight(w0, h0, min_h, max_w)

Downscale(w0, h0, max_w, max_h, stretch) ==
    IF stretch THEN [w |-> max_w, h |-> max_h]
    ELSE IF max_w >= max_h THEN ScaleByWidth(w0, h0, max_w, max_h)
    ELSE ScaleByHeight(w0, h0, max_h, max_w)

TargetSize(w0, h0, a, t) ==
    LET max_w0 == IF a.max_w = 0 THEN w0 ELSE a.max_w
        max_h0 == IF a.max_h = 0 THEN h0 ELSE a.max_h
        min_w  == NegativeColToPx(a.min_w, t)
        min_h  == NegativeRowToPx(a.min_h, t)
        max_w  == NegativeColToPx(max_w0, t)
        max_h  == NegativeRowToPx(max_h0, t)
    IN  IF ~(a.min_w <= max_w0) \/ ~(a.min_h <= max_h0)
            THEN [kind |-> "assert", w |-> w0, h |-> h0]
        ELSE IF (w0 < min_w \/ h0 < min_h) /\ w0 < max_w /\ h0 < max_h
            THEN LET s == Upscale(w0, h0, min_w, min_h, max_w, max_h, a.stretch)
                 IN  [kind |-> "scaled", w |-> s.w, h |-> s.h]
        ELSE IF w0 > max_w \/ h0 > max_h
            THEN LET s == Downscale(w0, h0, max_w, max_h, a.stretch)
                 IN  [kind |-> "scaled", w |-> s.w, h |-> s.h]
        ELSE [kind |-> "self", w |-> w0, h |-> h0]

(***************************************************************************)
(* image.py: Image.thumbnail passes size as all four bounds.               *)
(***************************************************************************)
ThumbnailArgs(size, stretch) ==
    [min_w |-> size, min_h |-> size, max_w |-> size, max_h |-> size,
     stretch |-> stretch]

Dims      == 1..MaxDim
Params    == (-MaxCells)..MaxParam
ResizeArgs ==
    [min_w : Params, min_h : Params, max_w : Params, max_h : Params,
     stretch : BOOLEAN]
NoArgs == [min_w |-> 1, min_h |-> 1, max_w |-> 0, max_h |-> 0, stretch |-> FALSE]


(***************************************************************************)
(*                       SpecResize: Image.resize's size                   *)
(***************************************************************************)
\* rz = [w0, h0, args, called, res]: an image of w0 x h0 pixels, the
\* arguments of the one call made on it and the size that call decided.
ResizeIdle == rz = [w0 |-> 1, h0 |-> 1, args |-> NoArgs, called |-> FALSE,
                    res |-> [kind |-> "self", w |-> 1, h |-> 1]]

ResizeCall(a) ==
    /\ ~rz.called
    /\ rz' = [rz EXCEPT !.args = a, !.called = TRUE,
                        !.res = TargetSize(rz.w0, rz.h0, a, term)]

ThumbnailCall(size, stretch) ==
    /\ ~rz.called
    /\ rz' = [rz EXCEPT !.args = ThumbnailArgs(size, stretch), !.called = TRUE,
                        !.res = TargetSize(rz.w0, rz.h0,
                                           ThumbnailArgs(size, stretch), term)]

(***************************************************************************)
(*            SpecImage: Image objects, identifiers, resize cache          *)
(***************************************************************************)
MaxImages   == 3    \* Image objects constructed in one run
MaxImgDim   == 2    \* intrinsic sizes of the images of SpecImage
MaxImgParam == 3    \* resize arguments used in SpecImage
NumIds      == 1    \* identifiers MIN_ID .. MIN_ID+NumIds-1 and MAX_ID are drawn

\* image.py:67  random.randint(1, 4_294_967_295).  The integers here are 32-bit
\* signed, so MAX_ID is the largest of them and stands for 4_294_967_295:
\* the identifiers from 2^31 up are not told apart from it.
MIN_ID == 1
MAX_ID == 2147483647
RandomIds == (MIN_ID..(MIN_ID + NumIds - 1)) \cup {MAX_ID}
\* the id argument of Image(...) / copy(): 0 stands for None
GivenIds  == {0, MIN_ID}

\* The resize calls of SpecImage: the smallest and the largest bound on each
\* side, an unset (0) maximum, with and without stretch.
ImgArgs ==
    [min_w : {1, MaxImgParam}, min_h : {1}, max_w : {0, 1, MaxImgParam},
     max_h : {0}, stretch : BOOLEAN]

\* image.py:51-67  Image.__post_init__: an empty cache, the decoded size,
\* and `self.id = self.id or random.randint(...)` (rnd is the number drawn).
\* given records whether the caller passed an id, made counts the resamples
\* done for this image (both are history, not fields of Image).
NewImage(w, h, id, rnd) ==
    [w |-> w, h |-> h, id |-> IF id # 0 THEN id ELSE rnd,
     cache |-> {}, given |-> (id # 0), made |-> 0]

\* image.py:189-191  cached = self._resized_cache.get((w, h)); 0 is None
CacheMiss(img, w, h) == 0
CacheGet(img, w, h) ==
    IF \E e \in img.cache : e.w = w /\ e.h = h
    THEN (CHOOSE e \in img.cache : e.w = w /\ e.h = h).ref
    ELSE 0

\* image.py:211  self._resized_cache[(w, h)] = img
CachePut(img, w, h, ref) ==
    [img EXCEPT !.cache = {e \in @ : ~(e.w = w /\ e.h = h)}
                          \cup {[w |-> w, h |-> h, ref |-> ref]},
                !.made = @ + 1]

\* The objects reachable from the references the caller holds: an Image
\* keeps the derived images of its cache alive.
RECURSIVE Reach(_)
Reach(S) ==
    LET T == S \cup {e.ref : e \in UNION {images[i].cache : i \in S}}
    IN  IF T = S THEN S ELSE Reach(T)
Live == Reach(held)

ImageIdle ==
    /\ images = <<>>
    /\ held = {}
    /\ ret = [op |-> "none", kind |-> "none", self |-> 0, ref |-> 0]
    /\ log = {}

\* Image(location) / Image(location, id=...)
Construct(w, h, id, rnd) ==
    /\ Len(images) < MaxImages
    /\ images' = Append(images, NewImage(w, h, id, rnd))
    /\ held' = held \cup {Len(images) + 1}
    /\ ret' = [op |-> "Image", kind |-> "new", self |-> 0, ref |-> Len(images) + 1]
    /\ UNCHANGED log

\* image.py:298-305  Image.copy(new_id)
Copy(i, id, rnd) ==
    /\ i \in held
    /\ Len(images) < MaxImages
    /\ images' = Append(images, NewImage(images[i].w, images[i].h, id, rnd))
    /\ held' = held \cup {Len(images) + 1}
    /\ ret' = [op |-> "copy", kind |-> "new", self |-> i, ref |-> Len(images) + 1]
    /\ UNCHANGED log

\* image.py:132-213  Image.resize(i, a): t is the size it decides, rnd the
\* number random.randint returns when a derived Image is constructed
Resize(i, a) ==
    /\ i \in held
    /\ LET t      == TargetSize(images[i].w, images[i].h, a, term)
           cached == CacheGet(images[i], t.w, t.h)
           new    == Len(images) + 1
       IN  CASE t.kind = "assert" ->
                  /\ ret' = [op |-> "resize", kind |-> "AssertionError",
                             self |-> i, ref |-> 0]
                  /\ UNCHANGED <<images, held, log>>
             [] t.kind = "self" ->
                  /\ ret' = [op |-> "resize", kind |-> "self", self |-> i, ref |-> i]
                  /\ UNCHANGED <<images, held, log>>
             [] t.kind = "scaled" /\ cached # 0 ->
                  /\ ret' = [op |-> "resize", kind |-> "cached", self |-> i,
                             ref |-> cached]
                  /\ held' = held \cup {cached}
                  /\ log' = log \cup {<<i, t.w, t.h, cached>>}
                  /\ UNCHANGED images
             [] t.kind = "scaled" /\ cached = 0 /\ (t.w < 1 \/ t.h < 1) ->
                  \* line 196: PIL refuses an empty size
                  /\ ret' = [op |-> "resize", kind |-> "ValueError", self |-> i,
                             ref |-> 0]
                  /\ UNCHANGED <<images, held, log>>
             [] OTHER ->
                  /\ Len(images) < MaxImages
                  /\ \E rnd \in RandomIds :
                        images' = Append([images EXCEPT
                                              ![i] = CachePut(@, t.w, t.h, new)],
                                         NewImage(t.w, t.h, 0, rnd))
                  /\ held' = held \cup {new}
                  /\ log' = log \cup {<<i, t.w, t.h, new>>}
                  /\ ret' = [op |-> "resize", kind |-> "new", self |-> i, ref |-> new]

\* The caller drops a reference.
Release(i) ==
    /\ i \in held
    /\ held' = held \ {i}
    /\ ret' = [op |-> "del", kind |-> "none", self |-> i, ref |-> 0]
    /\ UNCHANGED <<images, log>>


(***************************************************************************)
(*          Spec: PixTerminal.get_code / run_code / detect_support         *)
(***************************************************************************)
MaxCalls == 2       \* run_code calls in one run

\* data.py:1 and the characters a reply is made of
ESC == "ESC"
BS  == "\\"
OKMark == <<";", "O", "K">>

\* The replies a terminal may send to a frame (after the ESC _G i=.. that
\* opens them): success, an error, and an error whose message holds a
\* backslash.  A terminal may also stop anywhere in a reply, or send none.
Replies ==
    { <<";", "O", "K", ESC, BS>>,
      <<";", "E", ESC, BS>>,
      <<";", "E", BS, "E", ESC, BS>> }
MaxReplyLen == CHOOSE n \in {Len(r) : r \in Replies} : \A r \in Replies : Len(r) <= n

\* terminal.py:83  run_code(..., timeout: int = 3, ...)
DefaultTimeout == 3

\* data.py:4
ACTIONS_WITH_ANSWER == {"display", "transmit+display", "query"}

\* data.py:6-73  IMAGE_CONTROLS: the protocol letter of a control name
\* ("" for a name the table does not hold)
ControlLetter(k) ==
    CASE k = "action" -> "a"     [] k = "format" -> "f"
      [] k = "medium" -> "t"     [] k = "compress" -> "o"
      [] k = "chunks" -> "m"     [] k = "id" -> "i"
      [] k = "source_w" -> "s"   [] k = "source_h" -> "v"
      [] k = "del_target" -> "d" [] k = "del_data_target" -> "d"
      [] k = "offset_x" -> "X"   [] k = "offset_y" -> "Y"
      [] k = "origin_x" -> "x"   [] k = "origin_y" -> "y"
      [] k = "z_index" -> "z"    [] k = "crop_w" -> "w"
      [] k = "crop_h" -> "h"     [] k = "fit_cols" -> "c"
      [] k = "fit_rows" -> "r"   [] OTHER -> ""

\* data.py:6-73  IMAGE_CONTROLS: the value table of a control name, as
\* <<value, code>> pairs; empty for a control whose value is passed through
ControlCodes(k) ==
    CASE k = "action" ->
           {<<"query", "q">>, <<"transmit", "t">>, <<"display", "p">>,
            <<"transmit+display", "T">>, <<"delete", "d">>}
      [] k = "format" -> {<<"rgb", "24">>, <<"rgba", "32">>, <<"png", "100">>}
      [] k = "medium" ->
           {<<"direct", "d">>, <<"file", "f">>, <<"tempfile", "t">>,
            <<"sharedmem", "s">>}
      [] k = "compress" -> {<<"zlib", "z">>}
      [] k = "chunks" -> {<<"partial", "1">>, <<"final", "0">>}
      [] k = "del_target" ->
           {<<"all", "a">>, <<"id", "i">>, <<"at_cursor", "c">>,
            <<"at_cell", "p">>, <<"at_cell_zindex", "q">>, <<"at_cols", "x">>,
            <<"at_row", "y">>}
      [] k = "del_data_target" ->
           {<<"all", "A">>, <<"id", "I">>, <<"at_cursor", "C">>,
            <<"at_cell", "P">>, <<"at_cell_zindex", "Q">>, <<"at_cols", "X">>,
            <<"at_row", "Y">>, <<"at_zindex", "Z">>}
      [] OTHER -> {}

\* str() of a natural number, as the f-string of get_code formats it
Digit(d) ==
    CASE d = 0 -> "0" [] d = 1 -> "1" [] d = 2 -> "2" [] d = 3 -> "3"
      [] d = 4 -> "4" [] d = 5 -> "5" [] d = 6 -> "6" [] d = 7 -> "7"
      [] d = 8 -> "8" [] OTHER -> "9"
RECURSIVE Dec(_)
Dec(n) == IF n < 10 THEN Digit(n) ELSE Dec(n \div 10) \o Digit(n % 10)

\* A control is [k, s, n, num]: name k with the string value s, or, when
\* num, the integer value n.  run_code's **controls is a sequence of them.
Ctl(k, s)  == [k |-> k, s |-> s, n |-> 0, num |-> FALSE]
CtlN(k, n) == [k |-> k, s |-> "", n |-> n, num |-> TRUE]
HasCtl(ctl, k) == \E i \in 1..Len(ctl) : ctl[i].k = k
GetCtl(ctl, k) == ctl[CHOOSE i \in 1..Len(ctl) : ctl[i].k = k]

\* the range get_code asserts for an id (data.MIN_ID, data.MAX_ID)
DataMinId == MIN_ID
DataMaxId == MAX_ID

\* terminal.py:76-77  base64 of the payload, for the payloads of the model
B64(payload) ==
    CASE payload = "" -> ""
      [] payload = "/tmp/x.png" -> "L3RtcC94LnBuZw=="
      [] payload = "p" -> "cA=="

\* terminal.py:67-72  the code of one control; "KeyError" when the table
\* lacks the name or the value
ControlValueRaw(c) ==
    IF ControlLetter(c.k) = "" THEN "KeyError"
    ELSE IF c.num THEN Dec(c.n) ELSE c.s
ControlValue(c) ==
    IF ControlLetter(c.k) = "" THEN "KeyError"
    ELSE IF ControlCodes(c.k) = {} THEN (IF c.num THEN Dec(c.n) ELSE c.s)
    ELSE IF c.num \/ ~(\E e \in ControlCodes(c.k) : e[1] = c.s) THEN "KeyError"
    ELSE (CHOOSE e \in ControlCodes(c.k) : e[1] = c.s)[2]

\* terminal.py:67-72  real_keys: a dict, so a later control with the same
\* letter replaces the value of an earlier one
RealKeys(ctl) ==
    { <<ControlLetter(ctl[i].k), ControlValue(ctl[i])>> :
        i \in { j \in 1..Len(ctl) :
                  ~(\E m \in (j+1)..Len(ctl) :
                        ControlLetter(ctl[m].k) = ControlLetter(ctl[j].k)) } }

\* terminal.py:63-80  get_code: the frame ESC _G keys ; payload ESC \ as
\* [err, keys, payload]; err is the exception raised instead, or "".
GetCode(payload, ctl) ==
    IF HasCtl(ctl, "id") /\
       ~(GetCtl(ctl, "id").num /\ DataMinId <= GetCtl(ctl, "id").n
                               /\ GetCtl(ctl, "id").n <= DataMaxId)
    THEN [err |-> "AssertionError", keys |-> {}, payload |-> ""]
    ELSE IF \E i \in 1..Len(ctl) : ControlValue(ctl[i]) = "KeyError"
    THEN [err |-> "KeyError", keys |-> {}, payload |-> ""]
    ELSE [err |-> "", keys |-> RealKeys(ctl), payload |-> B64(payload)]

\* terminal.py:88  controls.get("action", "transmit") not in actions_with_answer
AlwaysExpectsAnswer(ctl) == TRUE
ExpectsAnswer(ctl) ==
    (IF HasCtl(ctl, "action") THEN GetCtl(ctl, "action").s ELSE "transmit")
        \in ACTIONS_WITH_ANSWER

\* terminal.py:106  ";OK" in answer
ContainsNever(seq, pat) == FALSE
RECURSIVE Contains(_, _)
Contains(seq, pat) ==
    IF Len(seq) < Len(pat) THEN FALSE
    ELSE IF SubSeq(seq, 1, Len(pat)) = pat THEN TRUE
    ELSE Contains(Tail(seq), pat)



NoFrame == [err |-> "", keys |-> {}, payload |-> ""]
NoOutcome == [kind |-> "none", from_code |-> NoFrame, answer |-> <<>>]

\* The calls the model makes: the controls and the payload of each.
Requests ==
    { [ctl |-> <<Ctl("action", "query")>>, payload |-> ""],
      [ctl |-> <<Ctl("action", "transmit+display"), Ctl("format", "png"),
                 Ctl("medium", "file"), CtlN("id", 42)>>,
       payload |-> "/tmp/x.png"],
      [ctl |-> <<Ctl("action", "display"), CtlN("id", 1)>>, payload |-> ""],
      [ctl |-> <<Ctl("action", "transmit"), Ctl("format", "png"),
                 Ctl("medium", "file"), CtlN("id", 1)>>,
       payload |-> "/tmp/x.png"],
      [ctl |-> <<Ctl("action", "delete"), Ctl("del_data_target", "id"),
                 CtlN("id", 1)>>, payload |-> ""],
      [ctl |-> <<>>, payload |-> ""],
      [ctl |-> <<Ctl("action", "query"), CtlN("id", 0)>>, payload |-> ""],
      [ctl |-> <<Ctl("action", "bogus")>>, payload |-> ""] }

\* data.py:3  "kitty sends a response on stdin for those actions": whether
\* the terminal answers a frame, read from the frame's action letter.
FrameWantsReply(f) ==
    \E e \in f.keys : e[1] = "a" /\ e[2] \in {"p", "T", "q"}

TermIdle ==
    /\ pc = "idle"
    /\ req = [ctl |-> <<>>, payload |-> "", timeout |-> DefaultTimeout,
              code |-> NoFrame, saved |-> "cooked", caller |-> "none"]
    /\ out = [n |-> 0, last |-> NoFrame, asked |-> 0]
    /\ tx = [rq |-> 0]
    /\ stdin = <<>>
    /\ chars = <<>>
    /\ timer = 0
    /\ hist = [mode0 |-> mode, nread |-> 0, nwritten |-> 0, foreign |-> FALSE,
               backslash |-> FALSE, pending |-> 0, calls |-> 0, stray |-> FALSE]
    /\ outcome = NoOutcome
    /\ support = "none"

\* terminal.py:110-122  detect_support: what it makes of the way run_code ended
DetectResult(kind) ==
    CASE kind = "KittyAnswerError" -> "True"
      [] kind \in {"KittyAnswerTimeout", "returned"} -> "False"
      [] OTHER -> "raised"

\* run_code is left, by return or by an exception
Leave(caller, kind, code, answer) ==
    /\ pc' = "done"
    /\ outcome' = [kind |-> kind, from_code |-> code, answer |-> answer]
    /\ support' = IF caller = "detect_support" THEN DetectResult(kind) ELSE "none"
    /\ chars' = <<>>

\* terminal.py:83-91  run_code up to signal.alarm(timeout)
RunCode(ctl, payload, timeout, caller) ==
    /\ pc \in {"idle", "done"}
    /\ hist.calls < MaxCalls
    /\ LET code == GetCode(payload, ctl)
           h    == [hist EXCEPT !.calls = @ + 1, !.mode0 = mode, !.nread = 0,
                                !.nwritten = 0, !.foreign = FALSE,
                                !.backslash = FALSE, !.pending = Len(stdin)]
       IN  /\ req' = [ctl |-> ctl, payload |-> payload, timeout |-> timeout,
                      code |-> code, saved |-> mode, caller |-> caller]
           /\ IF code.err # ""
              THEN /\ Leave(caller, code.err, NoFrame, <<>>)
                   /\ hist' = h
                   /\ UNCHANGED <<out, timer>>
              ELSE /\ out' = [n |-> out.n + 1, last |-> code,
                              asked |-> IF FrameWantsReply(code) THEN out.n + 1
                                        ELSE out.asked]
                   /\ hist' = [h EXCEPT !.nwritten = 1]
                   /\ IF ~ExpectsAnswer(ctl)
                      THEN /\ Leave(caller, "returned", NoFrame, <<>>)
                           /\ UNCHANGED timer
                      ELSE /\ timer' = timeout
                           /\ pc' = "with"
                           /\ chars' = <<>>
                           /\ outcome' = NoOutcome
                           /\ support' = "none"
    /\ UNCHANGED <<tx, stdin, mode>>

\* terminal.py:110-114  detect_support's call
DetectSupport ==
    RunCode(<<Ctl("action", "query"), CtlN("id", 1)>>, "", DefaultTimeout,
            "detect_support")

\* terminal.py:96  `with self.cbreak():` entered: the mode is saved and set
EnterCbreak ==
    /\ pc = "with"
    /\ req' = [req EXCEPT !.saved = mode]
    /\ mode' = "cbreak"
    /\ pc' = "read"
    /\ UNCHANGED <<out, tx, stdin, chars, timer, hist, outcome, support>>

\* blessed's cbreak() restores the saved mode when its block is left
KeepMode(saved) == mode
ExitCbreak(saved) == saved

\* terminal.py:97-100  one byte read and appended, the block left, and the
\* loop left on a backslash
ReadChar ==
    /\ pc = "read"
    /\ stdin # <<>>
    /\ chars' = Append(chars, Head(stdin).c)
    /\ stdin' = Tail(stdin)
    /\ mode' = ExitCbreak(req.saved)
    /\ hist' = [hist EXCEPT !.nread = @ + 1,
                            !.foreign = @ \/ Head(stdin).rq # out.n,
                            !.backslash = @ \/ Head(stdin).c = BS]
    /\ pc' = IF Head(stdin).c = BS THEN "cancel" ELSE "with"
    /\ UNCHANGED <<req, out, tx, timer, outcome, support>>

\* terminal.py:102  signal.alarm(0): no alarm is pending afterwards
KeepAlarm(t) == t
CancelAlarm(t) == 0

\* terminal.py:102-107  the alarm cancelled, the answer joined and checked
Validate ==
    /\ pc = "cancel"
    /\ timer' = CancelAlarm(timer)
    /\ IF chars # <<>> /\ ~Contains(chars, OKMark)
       THEN Leave(req.caller, "KittyAnswerError", req.code, chars)
       ELSE Leave(req.caller, "returned", NoFrame, chars)
    /\ UNCHANGED <<req, out, tx, stdin, mode, hist>>

\* One second passes.  When the alarm runs out, alarm_handler
\* (terminal.py:162-166) raises KittyAnswerTimeout in the main thread: out
\* of run_code's loop, through the cbreak block if it is inside one.
Tick ==
    /\ timer > 0
    /\ timer' = timer - 1
    /\ IF timer > 1
       THEN UNCHANGED <<pc, req, out, tx, stdin, chars, mode, hist, outcome, support>>
       ELSE IF pc \in {"with", "read", "cancel"}
       THEN /\ Leave(req.caller, "KittyAnswerTimeout", NoFrame, <<>>)
            /\ mode' = IF pc = "read" THEN ExitCbreak(req.saved) ELSE mode
            /\ UNCHANGED <<req, out, tx, stdin, hist>>
       ELSE /\ hist' = [hist EXCEPT !.stray = TRUE]
            /\ UNCHANGED <<pc, req, out, tx, stdin, chars, mode, outcome, support>>

\* The terminal answers the last frame that asks for a reply: the first k
\* bytes of the reply r arrive on stdin.
TermReply(r, k) ==
    /\ out.asked > tx.rq
    /\ k \in 1..Len(r)
    /\ tx' = [rq |-> out.asked]
    /\ stdin' = stdin \o [i \in 1..k |-> [c |-> r[i], rq |-> out.asked]]
    /\ UNCHANGED <<pc, req, out, chars, timer, mode, hist, outcome, support>>

(***************************************************************************)
(*                      SpecSize: the Size type of size.py                 *)
(***************************************************************************)
\* The operators of Size take one or two operands: a run keeps two Size
\* objects, which any operator may be applied to in either order.
Operands == {"self", "other"}
MaxPx        == 4   \* pixel values given to a constructor or a setter
MaxCellCount == 2   \* cell counts given to a constructor or a setter

\* size.py:134-208  the axis of each class
KindOf(cls) == IF cls \in {"HSize", "TermHSize"} THEN "width" ELSE "height"

\* size.py:99-101  Size._term_cell_size
TermCellSize(kind, t) == IF kind = "width" THEN CellPxWidth(t) ELSE CellPxHeight(t)

\* size.py:8-19  Size.__init__.  c0 is history: the cell pixel size the
\* values were computed under.
SizeInit(cls, px, cells, t) ==
    LET c == TermCellSize(KindOf(cls), t)
    IN  IF px # 0
        THEN [cls |-> cls, kind |-> KindOf(cls), px |-> px,
              cells |-> CeilDiv(px, c), c0 |-> c, frompx |-> TRUE]
        ELSE [cls |-> cls, kind |-> KindOf(cls), px |-> cells * c,
              cells |-> cells, c0 |-> c, frompx |-> FALSE]

\* size.py:104-110, 178-184, 202-208  the px and cells properties
Px(s, t) ==
    CASE s.cls = "TermHSize" -> t.px_width
      [] s.cls = "TermVSize" -> t.px_height
      [] OTHER -> s.px
LiveCells(s, t) ==
    CASE s.cls = "TermHSize" -> t.width
      [] s.cls = "TermVSize" -> t.height
      [] OTHER -> CeilDiv(s.px, TermCellSize(s.kind, t))
Cells(s, t) ==
    CASE s.cls = "TermHSize" -> t.width
      [] s.cls = "TermVSize" -> t.height
      [] OTHER -> s.cells

\* size.py:141-145, 156-160, 172-176, 196-200  _from_px / _from_cells: an
\* HSize for the horizontal classes, a VSize for the vertical ones
FromPx(s, px, t) ==
    SizeInit(IF s.kind = "width" THEN "HSize" ELSE "VSize", px, 0, t)
FromCells(s, cells, t) ==
    SizeInit(IF s.kind = "width" THEN "HSize" ELSE "VSize", 0, cells, t)

\* size.py:42-63  the operators: [kind, size, val], kind "Size" with the new
\* Size, "bool" with the truth value, or the exception raised
NoSize == SizeInit("HSize", 0, 0, DefaultTerminal)
SizeResult(sz)  == [kind |-> "Size", size |-> sz, val |-> FALSE]
BoolResult(b)   == [kind |-> "bool", size |-> NoSize, val |-> b]
ErrorResult(e)  == [kind |-> e, size |-> NoSize, val |-> FALSE]

SizeOps == {"+", "-", "*", "/", "//", "==", ">"}
SizeOp(op, a, b, t) ==
    CASE op = "==" -> BoolResult(Px(a, t) = Px(b, t))
      [] op = ">"  -> BoolResult(Px(a, t) > Px(b, t))
      [] op = "+"  -> SizeResult(FromPx(a, Px(a, t) + Px(b, t), t))
      [] op = "-"  -> SizeResult(FromPx(a, Px(a, t) - Px(b, t), t))
      [] op = "*"  -> SizeResult(FromPx(a, Px(a, t) * Px(b, t), t))
      [] op = "//" -> IF Px(b, t) = 0 THEN ErrorResult("ZeroDivisionError")
                      ELSE SizeResult(FromPx(a, FloorDiv(Px(a, t), Px(b, t)), t))
      [] op = "/"  -> IF Px(b, t) = 0 THEN ErrorResult("ZeroDivisionError")
                      ELSE SizeResult(FromPx(a, CeilDiv(Px(a, t), Px(b, t)), t))

\* size.py:89-95  __floor__ and __ceil__
SizeFloor(s, t) == FromCells(s, FloorDiv(Px(s, t), TermCellSize(s.kind, t)), t)
CeilPlusOne(s, t) ==
    FromCells(s, FloorDiv(Px(s, t), TermCellSize(s.kind, t)) + 1, t)
SizeCeil(s, t)  == FromCells(s, CeilDiv(Px(s, t), TermCellSize(s.kind, t)), t)

\* grid.py calls size.floor_cell() and size.ceil_cell(), which size.py does
\* not define: they are taken to be what the spec calls floorToCell and
\* ceilToCell, the snapping of __floor__ and __ceil__.
FloorCell(s, t) == SizeFloor(s, t)
CeilCell(s, t)  == SizeCeil(s, t)

\* size.py:61-63  size / 2
Half(s, t) == FromPx(s, CeilDiv(Px(s, t), 2), t)

\* grid.py:233-243  Grid._get_align(cell, child_size), for a cell of size S
\* aligned al and a child of size C
AlignOps == {"left", "top", "center", "right", "bottom"}
GetAlign(al, S, C, t) ==
    CASE al \in {"left", "top"} ->
           \* type(cell.size)(0): TermHSize() and TermVSize() take no argument
           IF S.cls \in {"HSize", "VSize"}
           THEN SizeResult(SizeInit(S.cls, 0, 0, t))
           ELSE ErrorResult("TypeError")
      [] al = "center" ->
           SizeResult(FloorCell(FromPx(Half(S, t),
                                       Px(Half(S, t), t) - Px(Half(C, t), t), t), t))
      [] OTHER ->
           SizeResult(FloorCell(FromPx(S, Px(S, t) - Px(C, t), t), t))

SizeIdle ==
    /\ sizes = <<>>
    /\ sret = [op |-> "none", i |-> 0, j |-> 0,
               res |-> ErrorResult("none")]

\* HSize(px=..) / HSize(cells=..) / VSize(..) ; px and cells not both given
NewSize(cls, px, cells) ==
    /\ Len(sizes) < Cardinality(Operands)
    /\ cls \in {"HSize", "VSize"}
    /\ ~(px # 0 /\ cells # 0)
    /\ sizes' = Append(sizes, SizeInit(cls, px, cells, term))
    /\ sret' = [op |-> "new", i |-> 0, j |-> 0,
                res |-> SizeResult(SizeInit(cls, px, cells, term))]
    /\ UNCHANGED term

\* TermHSize() / TermVSize(): size.py:164-166, 188-190
NewTermSize(cls) ==
    /\ Len(sizes) < Cardinality(Operands)
    /\ cls \in {"TermHSize", "TermVSize"}
    /\ LET sz == SizeInit(cls, IF cls = "TermHSize" THEN term.px_width
                               ELSE term.px_height, 0, term)
       IN  /\ sizes' = Append(sizes, sz)
           /\ sret' = [op |-> "new", i |-> 0, j |-> 0,
                       res |-> SizeResult(sz)]
    /\ UNCHANGED term

\* size.py:118-130  MutableSize's setters
SetPx(i, to) ==
    /\ i \in 1..Len(sizes)
    /\ sizes[i].cls \in {"HSize", "VSize"}
    /\ LET c == TermCellSize(sizes[i].kind, term)
       IN  sizes' = [sizes EXCEPT ![i] =
                        [@ EXCEPT !.px = to, !.cells = CeilDiv(to, c),
                                  !.c0 = c, !.frompx = TRUE]]
    /\ sret' = [op |-> "set", i |-> 0, j |-> 0, res |-> ErrorResult("none")]
    /\ UNCHANGED term

SetCells(i, to) ==
    /\ i \in 1..Len(sizes)
    /\ sizes[i].cls \in {"HSize", "VSize"}
    /\ LET c == TermCellSize(sizes[i].kind, term)
       IN  sizes' = [sizes EXCEPT ![i] =
                        [@ EXCEPT !.cells = to, !.px = to * c,
                                  !.c0 = c, !.frompx = FALSE]]
    /\ sret' = [op |-> "set", i |-> 0, j |-> 0, res |-> ErrorResult("none")]
    /\ UNCHANGED term

\* a op b on two Size objects
Operate(op, i, j) ==
    /\ i \in 1..Len(sizes) /\ j \in 1..Len(sizes)
    /\ sret' = [op |-> op, i |-> i, j |-> j,
                res |-> SizeOp(op, sizes[i], sizes[j], term)]
    /\ UNCHANGED <<term, sizes>>

\* Grid._get_align on a cell whose size is the i-th object and a child
\* whose size is the j-th: a Column is aligned left, center or right, a Row
\* top, center or bottom (grid.py:36, 42)
Align(al, i, j) ==
    /\ i \in 1..Len(sizes) /\ j \in 1..Len(sizes)
    /\ al \in (IF sizes[i].kind = "width" THEN {"left", "center", "right"}
               ELSE {"top", "center", "bottom"})
    /\ sret' = [op |-> al, i |-> i, j |-> j,
                res |-> GetAlign(al, sizes[i], sizes[j], term)]
    /\ UNCHANGED <<term, sizes>>

\* math.floor(s) / math.ceil(s)
Snap(op, i) ==
    /\ i \in 1..Len(sizes)
    /\ op \in {"floor", "ceil"}
    /\ sret' = [op |-> op, i |-> i, j |-> 0,
                res |-> SizeResult(IF op = "floor" THEN SizeFloor(sizes[i], term)
                                   ELSE SizeCeil(sizes[i], term))]
    /\ UNCHANGED <<term, sizes>>

\* The terminal window or its font is resized.
TermResize(t) ==
    /\ t \in Terminals /\ t # term
    /\ term' = t
    /\ sret' = [op |-> "none", i |-> 0, j |-> 0,
                res |-> ErrorResult("none")]
    /\ UNCHANGED sizes

(***************************************************************************)
(*                  SpecCode: PixTerminal.get_code alone                   *)
(***************************************************************************)
MaxCtls == 2        \* controls given to one get_code call

\* The controls a call is made of: known names with known and unknown
\* values, two names that share the letter d, an id in and out of range, a
\* free value, and a name the table lacks.
CtlPool ==
    { Ctl("action", "query"), Ctl("action", "transmit+display"),
      Ctl("action", "bogus"), Ctl("format", "png"), Ctl("medium", "file"),
      CtlN("id", 42), CtlN("id", 0), CtlN("z_index", 7),
      Ctl("del_target", "all"), Ctl("del_data_target", "id"),
      Ctl("nosuch", "x") }

\* **controls: keyword arguments, so no name twice
DistinctNames(ctl) ==
    \A i \in 1..Len(ctl), j \in 1..Len(ctl) : i # j => ctl[i].k # ctl[j].k

TransmitDisplayPng ==
    <<Ctl("action", "transmit+display"), Ctl("format", "png"),
      Ctl("medium", "file"), CtlN("id", 42)>>

CodeInputs ==
    { c \in UNION { [1..n -> CtlPool] : n \in 0..MaxCtls } : DistinctNames(c) }
        \cup {TransmitDisplayPng}

\* enc = [ctl, payload, called, code]
CodeIdle == enc = [ctl |-> <<>>, payload |-> "", called |-> FALSE, code |-> NoFrame]

\* terminal.py:63-80  get_code(payload, **controls)
GetCodeCall ==
    /\ ~enc.called
    /\ enc' = [enc EXCEPT !.called = TRUE, !.code = GetCode(enc.payload, enc.ctl)]

(***************************************************************************)
(*                        SpecGrid: Grid.show                              *)
(***************************************************************************)
\* Inputs of the grid model: the longest input sequence, the most lines a
\* text has after wrapping, and how often the terminal is resized during one
\* show.
MaxContents == 3
MaxLines    == 3
MaxResizes  == 1

\* The terminals a grid is shown under: those of the other specifications
\* and a narrower one, so that the number of columns that fit differs.
NarrowTerminal == [px_width |-> 6, px_height |-> 6, width |-> 3, height |-> 2]
GridTerminals  == Terminals \cup {NarrowTerminal}

\* grid.py:34-43, 61-76  the Grid fields: one Column of ColPx pixels and one
\* Row of RowPx pixels (Axis.__getitem__ gives the last cell for every index
\* past the end, lines 51-55); 0 stands for None in max_cols and max_rows.
ColPx      == {2}
RowPx      == {5, 6}
MaxColsSet == {0, 1, 2}
MaxRowsSet == {0, 1}
VAligns    == {"top", "center", "bottom"}

\* grid.py:22-23  Content: None, a text (lines: how many lines it has once
\* wrapped to the column width), or an Image.
GridContents ==
    {[kind |-> "none", lines |-> 0], [kind |-> "image", lines |-> 0]}
      \cup {[kind |-> "text", lines |-> l] : l \in {1, MaxLines}}

NoCell == [kind |-> "none", lines |-> 0, R |-> 0, down |-> 0, up |-> 0]

\* The grid before show is called.
NewGrid(mc, mr, fe, fo, re, pe, cpx, rpx, va, t) ==
    [pc |-> "idle", max_cols |-> mc, max_rows |-> mr,
     force_even |-> fe, force_odd |-> fo,
     raise_errors |-> re, print_errors |-> pe,
     colsize |-> SizeInit("HSize", cpx, 0, t),
     rowsize |-> SizeInit("VSize", rpx, 0, t), valign |-> va,
     k |-> 0, col |-> 0, row |-> 0, y |-> 0, placed |-> <<>>, last |-> NoCell,
     resizes |-> 0, printed |-> 0, err |-> "none"]

GridIdle ==
    grid = NewGrid(0, 0, FALSE, FALSE, FALSE, TRUE, 2, 6, "center", DefaultTerminal)

\* grid.py:89  term_w - TERM.cell_px_width, in pixels
LimitPxWhole(t) == t.px_width
LimitPx(t) == t.px_width - CellPxWidth(t)

\* grid.py:86-95  the loop counting the columns that fit
RECURSIVE Fit(_, _, _, _)
Fit(to_col, lim, at_col, can_fit) ==
    IF at_col + to_col > lim THEN can_fit
    ELSE Fit(to_col, lim, at_col + to_col, can_fit + 1)

\* grid.py:97-104  the count forced even or odd, and its floor
Forced(force_even, force_odd, can_fit) ==
    IF force_even THEN (IF (can_fit \div 2) * 2 > 2 THEN (can_fit \div 2) * 2 ELSE 2)
    ELSE IF force_odd
         THEN LET odd == IF can_fit % 2 = 0 THEN can_fit - 1 ELSE can_fit
              IN  IF odd > 1 THEN odd ELSE 1
    ELSE IF can_fit > 1 THEN can_fit ELSE 1

\* grid.py:78-104  Grid.cells_per_row
CellsPerRow(g, t) ==
    Forced(g.force_even, g.force_odd,
           IF g.max_cols # 0 THEN g.max_cols
           ELSE Fit(Px(g.colsize, t), LimitPx(t), 0, 0))

\* grid.py:131  col >= self.cells_per_row
WrapsLate(col, n) == col > n
Wraps(col, n) == col >= n

\* grid.py:137  self.max_rows and row > self.max_rows
RowsExceeded(g, row) == g.max_rows # 0 /\ row > g.max_rows

\* "\n" * n prints no line when n is negative
Times(n) == IF n < 0 THEN 0 ELSE n

\* size.py:51-52  Size.__sub__
SizeSub(a, b, t) == FromPx(a, Px(a, t) - Px(b, t), t)

\* grid.py:194  lines[:rows[row].size.ceil_cell().cells], and line 158
NumLines(g, c, t) ==
    IF c.kind = "text" THEN Min(c.lines, CeilCell(g.rowsize, t).cells) ELSE 0

\* grid.py:197-230  Grid._show_content for a text (or the "" of None): the
\* lines the cursor goes down: top padding, the content, bottom padding
LinesDown(g, c, t) ==
    LET n       == NumLines(g, c, t)
        height  == SizeInit("VSize", 0, n, t)
        inner_y == GetAlign(g.valign, g.rowsize, height, t).size
        top     == Times(FloorCell(inner_y, t).cells)
        rest    == SizeSub(SizeSub(CeilCell(g.rowsize, t), height, t), inner_y, t)
        bottom  == Times(FloorCell(rest, t).cells)
    IN  top + n + bottom

\* grid.py:107-108  show is entered
ShowStart ==
    /\ grid.pc = "idle"
    /\ grid' = [grid EXCEPT !.pc = "loop"]
    /\ UNCHANGED term

\* grid.py:110-138  one pass of the loop for None or a text: the content is
\* printed, the cursor goes back up and right, the counters advance and the
\* loop is left when max_rows is exceeded (lines 140-141 then end show)
ShowCell(c) ==
    /\ grid.pc = "loop"
    /\ grid.k < MaxContents
    /\ c.kind # "image"
    /\ LET R    == CeilCell(grid.rowsize, term).cells
           down == LinesDown(grid, c, term)
           n    == CellsPerRow(grid, term)
           wrap == Wraps(grid.col + 1, n)
           row2 == IF wrap THEN grid.row + 1 ELSE grid.row
       IN  grid' = [grid EXCEPT
                !.k = @ + 1,
                !.col = IF wrap THEN 0 ELSE @ + 1,
                !.row = row2,
                !.y = @ + down - R + (IF wrap THEN R ELSE 0)
                        + (IF wrap /\ RowsExceeded(grid, row2) THEN R ELSE 0),
                !.placed = Append(@, [col |-> grid.col, row |-> grid.row, n |-> n,
                                      wrap |-> wrap, term |-> term]),
                !.last = [kind |-> c.kind, lines |-> NumLines(grid, c, term),
                          R |-> R, down |-> down, up |-> R],
                !.pc = IF wrap /\ RowsExceeded(grid, row2) THEN "done" ELSE "loop"]
    /\ UNCHANGED term

\* grid.py:153-155, 162-175  one pass of the loop for an Image.  resize is
\* given Size objects: image.py:143 compares them with <=, which Size
\* (size.py:42-46, only __eq__ and __gt__) does not support, so resize
\* raises TypeError.  With raise_errors it is raised again (line 171-172);
\* otherwise it is printed when print_errors is set, _get_resized_image
\* returns None and line 155 reads img.width of None: AttributeError, which
\* nothing in show catches.
ShowImageCell ==
    /\ grid.pc = "loop"
    /\ grid.k < MaxContents
    /\ grid' = [grid EXCEPT
            !.pc = "raised",
            !.err = IF grid.raise_errors THEN "TypeError" ELSE "AttributeError",
            !.printed = IF ~grid.raise_errors /\ grid.print_errors THEN @ + 1 ELSE @,
            !.last = [kind |-> "image", lines |-> 0, R |-> 0, down |-> 0, up |-> 0]]
    /\ UNCHANGED term

\* grid.py:110, 140-141  the input is exhausted: the last newlines, return
ShowEnd ==
    /\ grid.pc = "loop"
    /\ grid' = [grid EXCEPT !.pc = "done",
                            !.y = @ + CeilCell(grid.rowsize, term).cells]
    /\ UNCHANGED term

\* The terminal window is resized while show runs (terminal.py:50-60 reads
\* the metrics anew at every use).
GridTermResize(t) ==
    /\ grid.pc = "loop"
    /\ grid.resizes < MaxResizes
    /\ t # term
    /\ term' = t
    /\ grid' = [grid EXCEPT !.resizes = @ + 1]

(***************************************************************************)
(*              SpecFit: the loop of Grid.cells_per_row, by steps          *)
(***************************************************************************)
MaxAxisLen == 2     \* columns of the axis
FitCap     == 12    \* can_fit and index are kept up to here (see FitAdd)

\* The column sizes of an axis: HSize of these pixels (grid.py itself builds
\* HSize(0), line 147), or a TermHSize.
ColWidths == {0, 2, 3}
ColSizes(t) ==
    {SizeInit("HSize", px, 0, t) : px \in ColWidths}
      \cup {SizeInit("TermHSize", t.px_width, 0, t)}
Axes(t) ==
    UNION {[1..n -> ColSizes(t)] : n \in 1..MaxAxisLen}

\* grid.py:50-56  Axis.__getitem__ (index from 0): past the end, the cell at
\* index % len with wrap_around, the last cell without
AxisGet(data, wrap_around, index) ==
    IF index < Len(data) THEN data[index + 1]
    ELSE IF wrap_around THEN data[(index % Len(data)) + 1]
    ELSE data[Len(data)]

FitIdle ==
    fit = [pc |-> "idle", cols |-> <<>>, wrap_around |-> FALSE,
           force_even |-> FALSE, force_odd |-> FALSE,
           index |-> 0, at_col |-> 0, can_fit |-> 0, ret |-> 0]

\* grid.py:87-91  to_col is read and the sum compared with the terminal
\* width less one cell; on break lines 97-104 return the value
FitTest ==
    /\ fit.pc = "test"
    /\ LET to_col == AxisGet(fit.cols, fit.wrap_around, fit.index)
       IN  IF fit.at_col + Px(to_col, term) > LimitPx(term)
           THEN fit' = [fit EXCEPT !.pc = "done",
                                   !.ret = Forced(fit.force_even, fit.force_odd,
                                                  fit.can_fit)]
           ELSE fit' = [fit EXCEPT !.pc = "add"]
    /\ UNCHANGED term

\* grid.py:92-95  at_col += to_col, can_fit += 1, index += 1.  The two
\* counters have no bound in Python; past FitCap, which no loop that ends
\* reaches, they are kept at FitCap.
FitAdd ==
    /\ fit.pc = "add"
    /\ LET to_col == AxisGet(fit.cols, fit.wrap_around, fit.index)
       IN  fit' = [fit EXCEPT !.pc = "test",
                              !.at_col = @ + Px(to_col, term),
                              !.can_fit = Min(@ + 1, FitCap),
                              !.index = Min(@ + 1, FitCap)]
    /\ UNCHANGED term

(***************************************************************************)
(*                           The specifications                            *)
(***************************************************************************)
InitResize ==
    /\ term \in Terminals
    /\ rz \in [w0 : Dims, h0 : Dims, args : {NoArgs}, called : {FALSE},
               res : {[kind |-> "self", w |-> 1, h |-> 1]}]
    /\ mode = "cooked"
    /\ ImageIdle /\ TermIdle /\ SizeIdle /\ CodeIdle /\ GridIdle /\ FitIdle

NextResize ==
    /\ ~rz.called
    /\ \/ \E a \in ResizeArgs : ResizeCall(a)
       \/ \E size \in 1..MaxParam, stretch \in BOOLEAN : ThumbnailCall(size, stretch)
    /\ UNCHANGED <<term, imageVars, termVars, sizeVars, codeVars, gridVars, fitVars>>

SpecResize == InitResize /\ [][NextResize]_vars

InitImage ==
    /\ term = DefaultTerminal
    /\ mode = "cooked"
    /\ ResizeIdle /\ ImageIdle /\ TermIdle /\ SizeIdle /\ CodeIdle /\ GridIdle /\ FitIdle

NextImage ==
    \/ \E w \in 1..MaxImgDim, h \in 1..MaxImgDim, id \in GivenIds, rnd \in RandomIds :
          Construct(w, h, id, rnd) /\ UNCHANGED <<term, resizeVars, termVars, sizeVars, codeVars, gridVars, fitVars>>
    \/ \E i \in held, id \in GivenIds, rnd \in RandomIds :
          Copy(i, id, rnd) /\ UNCHANGED <<term, resizeVars, termVars, sizeVars, codeVars, gridVars, fitVars>>
    \/ \E i \in held, a \in ImgArgs :
          Resize(i, a) /\ UNCHANGED <<term, resizeVars, termVars, sizeVars, codeVars, gridVars, fitVars>>
    \/ \E i \in held :
          Release(i) /\ UNCHANGED <<term, resizeVars, termVars, sizeVars, codeVars, gridVars, fitVars>>

SpecImage == InitImage /\ [][NextImage]_vars

Init ==
    /\ term = DefaultTerminal
    /\ mode \in {"cooked", "raw"}
    /\ ResizeIdle /\ ImageIdle /\ TermIdle /\ SizeIdle /\ CodeIdle /\ GridIdle /\ FitIdle

Next ==
    \/ \E r \in Requests :
          RunCode(r.ctl, r.payload, DefaultTimeout, "user")
            /\ UNCHANGED <<term, resizeVars, imageVars, sizeVars, codeVars, gridVars, fitVars>>
    \/ DetectSupport /\ UNCHANGED <<term, resizeVars, imageVars, sizeVars, codeVars, gridVars, fitVars>>
    \/ EnterCbreak /\ UNCHANGED <<term, resizeVars, imageVars, sizeVars, codeVars, gridVars, fitVars>>
    \/ ReadChar /\ UNCHANGED <<term, resizeVars, imageVars, sizeVars, codeVars, gridVars, fitVars>>
    \/ Validate /\ UNCHANGED <<term, resizeVars, imageVars, sizeVars, codeVars, gridVars, fitVars>>
    \/ Tick /\ UNCHANGED <<term, resizeVars, imageVars, sizeVars, codeVars, gridVars, fitVars>>
    \/ \E r \in Replies, k \in 1..MaxReplyLen :
          TermReply(r, k) /\ UNCHANGED <<term, resizeVars, imageVars, sizeVars, codeVars, gridVars, fitVars>>

Spec == Init /\ [][Next]_vars

InitSize ==
    /\ term \in Terminals
    /\ mode = "cooked"
    /\ ResizeIdle /\ ImageIdle /\ TermIdle /\ SizeIdle /\ CodeIdle /\ GridIdle /\ FitIdle

NextSize ==
    \/ \E cls \in {"HSize", "VSize"}, px \in 0..MaxPx :
          NewSize(cls, px, 0) /\ UNCHANGED <<resizeVars, imageVars, termVars, codeVars, gridVars, fitVars>>
    \/ \E cls \in {"HSize", "VSize"}, cells \in 1..MaxCellCount :
          NewSize(cls, 0, cells) /\ UNCHANGED <<resizeVars, imageVars, termVars, codeVars, gridVars, fitVars>>
    \/ \E cls \in {"TermHSize", "TermVSize"} :
          NewTermSize(cls) /\ UNCHANGED <<resizeVars, imageVars, termVars, codeVars, gridVars, fitVars>>
    \/ \E i \in 1..Len(sizes), to \in 0..MaxPx :
          SetPx(i, to) /\ UNCHANGED <<resizeVars, imageVars, termVars, codeVars, gridVars, fitVars>>
    \/ \E i \in 1..Len(sizes), to \in 0..MaxCellCount :
          SetCells(i, to) /\ UNCHANGED <<resizeVars, imageVars, termVars, codeVars, gridVars, fitVars>>
    \/ \E op \in SizeOps, i \in 1..Len(sizes), j \in 1..Len(sizes) :
          Operate(op, i, j) /\ UNCHANGED <<resizeVars, imageVars, termVars, codeVars, gridVars, fitVars>>
    \/ \E al \in AlignOps, i \in 1..Len(sizes), j \in 1..Len(sizes) :
          Align(al, i, j) /\ UNCHANGED <<resizeVars, imageVars, termVars, codeVars, gridVars, fitVars>>
    \/ \E op \in {"floor", "ceil"}, i \in 1..Len(sizes) :
          Snap(op, i) /\ UNCHANGED <<resizeVars, imageVars, termVars, codeVars, gridVars, fitVars>>
    \/ \E t \in Terminals :
          TermResize(t) /\ UNCHANGED <<resizeVars, imageVars, termVars, codeVars, gridVars, fitVars>>

SpecSize == InitSize /\ [][NextSize]_vars


InitCode ==
    /\ term = DefaultTerminal
    /\ mode = "cooked"
    /\ enc \in [ctl : CodeInputs, payload : {"", "p", "/tmp/x.png"},
                called : {FALSE}, code : {NoFrame}]
    /\ ResizeIdle /\ ImageIdle /\ TermIdle /\ SizeIdle /\ GridIdle /\ FitIdle

NextCode ==
    GetCodeCall
      /\ UNCHANGED <<term, resizeVars, imageVars, termVars, sizeVars, gridVars, fitVars>>

SpecCode == InitCode /\ [][NextCode]_vars

InitGrid ==
    /\ term \in GridTerminals
    /\ mode = "cooked"
    /\ \E mc \in MaxColsSet, mr \in MaxRowsSet, fe \in BOOLEAN, fo \in BOOLEAN,
          re \in BOOLEAN, pe \in BOOLEAN, cpx \in ColPx, rpx \in RowPx, va \in VAligns :
          grid = NewGrid(mc, mr, fe, fo, re, pe, cpx, rpx, va, term)
    /\ ResizeIdle /\ ImageIdle /\ TermIdle /\ SizeIdle /\ CodeIdle /\ FitIdle

NextGrid ==
    \/ ShowStart /\ UNCHANGED <<resizeVars, imageVars, termVars, sizeVars, codeVars, fitVars>>
    \/ \E c \in GridContents :
          ShowCell(c) /\ UNCHANGED <<resizeVars, imageVars, termVars, sizeVars, codeVars, fitVars>>
    \/ ShowImageCell /\ UNCHANGED <<resizeVars, imageVars, termVars, sizeVars, codeVars, fitVars>>
    \/ ShowEnd /\ UNCHANGED <<resizeVars, imageVars, termVars, sizeVars, codeVars, fitVars>>
    \/ \E t \in GridTerminals :
          GridTermResize(t) /\ UNCHANGED <<resizeVars, imageVars, termVars, sizeVars, codeVars, fitVars>>

SpecGrid == InitGrid /\ [][NextGrid]_vars

InitFit ==
    /\ term \in GridTerminals
    /\ mode = "cooked"
    /\ \E cols \in Axes(term), wa \in BOOLEAN, fe \in BOOLEAN, fo \in BOOLEAN :
          fit = [pc |-> "test", cols |-> cols, wrap_around |-> wa,
                 force_even |-> fe, force_odd |-> fo,
                 index |-> 0, at_col |-> 0, can_fit |-> 0, ret |-> 0]
    /\ ResizeIdle /\ ImageIdle /\ TermIdle /\ SizeIdle /\ CodeIdle /\ GridIdle

NextFit ==
    \/ FitTest /\ UNCHANGED <<resizeVars, imageVars, termVars, sizeVars, codeVars, gridVars>>
    \/ FitAdd /\ UNCHANGED <<resizeVars, imageVars, termVars, sizeVars, codeVars, gridVars>>

\* The loop runs in one thread that nothing suspends: a step that can be
\* taken is taken.
SpecFit == InitFit /\ [][NextFit]_vars /\ WF_vars(NextFit)

(***************************************************************************)
(*                               Properties                                *)
(***************************************************************************)

\* The call of SpecResize was given explicit bounds 1 <= min <= max on both
\* axes and got past the asserts of lines 143-144.
ValidBoundsCall ==
    /\ rz.called
    /\ rz.res.kind # "assert"
    /\ 1 <= rz.args.min_w /\ rz.args.min_w <= rz.args.max_w
    /\ 1 <= rz.args.min_h /\ rz.args.min_h <= rz.args.max_h

\* C1: for every intrinsic size, every constraint set with 1 <= min_w <= max_w
\* and 1 <= min_h <= max_h and either value of stretch, the size (w, h) of
\* the image resize returns (the image itself included) satisfies
\* min_w <= w <= max_w and min_h <= h <= max_h.
C1_ResizeWithinBounds ==
    ValidBoundsCall =>
        /\ rz.args.min_w <= rz.res.w /\ rz.res.w <= rz.args.max_w
        /\ rz.args.min_h <= rz.res.h /\ rz.res.h <= rz.args.max_h

\* The action the controls of the current call name (terminal.py:88), and
\* the actions the protocol answers.
ReqAction ==
    IF HasCtl(req.ctl, "action") THEN GetCtl(req.ctl, "action").s ELSE "transmit"
ReplyActions == {"display", "transmit+display", "query"}
\* run_code has been left after it wrote the frame of a reply-expecting action
AnswerCallDone == pc = "done" /\ hist.nwritten = 1 /\ ReqAction \in ReplyActions
\* ";OK" occurs in a sequence of characters
HasOKMark(cs) == \E i \in 1..(Len(cs) - 2) : SubSeq(cs, i, i + 2) = OKMark

C4_OneFrameThenOwnReply ==
    /\ hist.nread > 0 => hist.nwritten = 1
    /\ (pc = "done" /\ req.code.err = "") =>
          /\ hist.nwritten = 1
          /\ ReqAction \in ReplyActions =>
                (hist.backslash \/ outcome.kind = "KittyAnswerTimeout")
          /\ ReqAction \notin ReplyActions => hist.nread = 0
          /\ ~hist.foreign

\* C5: detect_support writes one query frame with the fixed id 1, returns
\* True whenever a complete reply arrived before the timeout (an error
\* reply or a success reply), returns False on the timeout, and lets
\* neither exception escape.
C5_DetectSupportOnAnyReply ==
    (pc = "done" /\ req.caller = "detect_support") =>
        /\ hist.nwritten = 1
        /\ out.last.keys = {<<"a", "q">>, <<"i", "1">>}
        /\ support \in {"True", "False"}
        /\ (hist.backslash /\ outcome.kind # "KittyAnswerTimeout") => support = "True"
        /\ outcome.kind = "KittyAnswerTimeout" => support = "False"

\* C6: when no Image was given an explicit id, no two live Image objects
\* carry the same identifier, and every identifier lies in 1 .. 2^32-1.
C6_LiveIdsUnique ==
    (\A i \in 1..Len(images) : ~images[i].given) =>
        /\ \A i \in Live, j \in Live : i # j => images[i].id # images[j].id
        /\ \A i \in Live : MIN_ID <= images[i].id /\ images[i].id <= MAX_ID

\* C7: two resize calls on one Image that compute the same target (w, h)
\* return the same derived Image object; the image resampled and built one
\* derived image per distinct (w, h), and its cache holds at most one derived
\* image per (w, h).
C7_ResizeCacheIdentity ==
    /\ \A e1 \in log, e2 \in log :
          (e1[1] = e2[1] /\ e1[2] = e2[2] /\ e1[3] = e2[3]) => e1[4] = e2[4]
    /\ \A i \in 1..Len(images) :
          /\ \A c1 \in images[i].cache, c2 \in images[i].cache :
                (c1.w = c2.w /\ c1.h = c2.h) => c1 = c2
          /\ images[i].made = Cardinality({<<e[2], e[3]>> : e \in {x \in log : x[1] = i}})
          /\ images[i].made = Cardinality(images[i].cache)

\* a resize call was answered from the cache of an image that has resampled
\* to two different sizes
C7_Witness ==
    /\ ret.op = "resize" /\ ret.kind = "cached"
    /\ images[ret.self].made = 2
    /\ <<ret.self, images[ret.ref].w, images[ret.ref].h, ret.ref>> \in log

\* C8: each of + - * / // == > applied to a horizontal and a vertical Size
\* fails with an error instead of producing a result; applied to two Sizes
\* of one axis it gives a result computed from the two pixel values (for
\* the arithmetic operators a Size of that axis, unless the divisor is 0).
C8_MixedAxesFail ==
    sret.op \in SizeOps =>
        IF sizes[sret.i].kind # sizes[sret.j].kind
        THEN sret.res.kind \notin {"Size", "bool"}
        ELSE /\ sret.res.kind \in {"Size", "bool", "ZeroDivisionError"}
             /\ sret.res.kind = "bool" <=> sret.op \in {"==", ">"}
             /\ sret.res.kind = "Size" =>
                    sret.res.size.kind = sizes[sret.i].kind

\* The cell pixel size a Size object converts under in the current terminal
CellNow(s) == TermCellSize(s.kind, term)

\* C9 as stated: the cells read from an HSize or VSize built from a pixel
\* value are the conversion of that value under the cell pixel size the
\* terminal has at the time of the read.
C9_CellsReadLive ==
    \A i \in 1..Len(sizes) :
        (sizes[i].cls \in {"HSize", "VSize"} /\ sizes[i].frompx) =>
            Cells(sizes[i], term) = CeilDiv(Px(sizes[i], term), CellNow(sizes[i]))

\* C9 amended: what is read from an HSize or VSize is what was computed
\* under the cell pixel size of the moment it was built or last assigned
\* (c0), whatever the terminal has become since; TermHSize and TermVSize
\* alone read the terminal's pixels and cells at the time of the read.
C9_CellsFrozenUnlessTerm ==
    \A i \in 1..Len(sizes) :
        LET s == sizes[i]
        IN  CASE s.cls = "TermHSize" ->
                   Px(s, term) = term.px_width /\ Cells(s, term) = term.width
              [] s.cls = "TermVSize" ->
                   Px(s, term) = term.px_height /\ Cells(s, term) = term.height
              [] OTHER ->
                   IF s.frompx THEN Cells(s, term) = CeilDiv(Px(s, term), s.c0)
                   ELSE Px(s, term) = Cells(s, term) * s.c0

\* the terminal was resized after an HSize or VSize was built from pixels,
\* and the cells read from it are not the conversion under the new cell size
C9_Witness ==
    \E i \in 1..Len(sizes) :
        /\ sizes[i].cls \in {"HSize", "VSize"} /\ sizes[i].frompx
        /\ sizes[i].c0 # CellNow(sizes[i])
        /\ Cells(sizes[i], term) # CeilDiv(Px(sizes[i], term), CellNow(sizes[i]))

\* C10: under the cell pixel size c of the terminal, for every Size s with
\* px >= 0: ceil(ceil(s)) has the px and cells of ceil(s), floor(floor(s))
\* those of floor(s), both snapped px are multiples of c, and
\* floor(s).px <= s.px <= ceil(s).px.
C10_SnapIdempotent ==
    \A i \in 1..Len(sizes) :
        LET s  == sizes[i]
            c  == CellNow(s)
            cl == SizeCeil(s, term)
            fl == SizeFloor(s, term)
        IN  (c >= 1 /\ Px(s, term) >= 0) =>
              /\ Px(SizeCeil(cl, term), term) = Px(cl, term)
              /\ Cells(SizeCeil(cl, term), term) = Cells(cl, term)
              /\ Px(SizeFloor(fl, term), term) = Px(fl, term)
              /\ Cells(SizeFloor(fl, term), term) = Cells(fl, term)
              /\ Px(cl, term) % c = 0 /\ Px(fl, term) % c = 0
              /\ Px(fl, term) <= Px(s, term) /\ Px(s, term) <= Px(cl, term)

\* math.ceil was applied to a Size whose px is not a whole number of cells
\* and moved it up to the next cell
C10_Witness ==
    /\ sret.op = "ceil"
    /\ Px(sizes[sret.i], term) % CellNow(sizes[sret.i]) # 0
    /\ sret.res.kind = "Size"
    /\ sret.res.size.px > Px(sizes[sret.i], term)
    /\ sret.res.size.px = sret.res.size.cells * CellNow(sizes[sret.i])

\* |x| for an integer
Abs(x) == IF x >= 0 THEN x ELSE -x

\* the call of SpecResize passed the asserts, did not stretch, and decided
\* on a size other than the intrinsic one
ScaledKeepingRatio ==
    /\ rz.called /\ rz.res.kind = "scaled" /\ ~rz.args.stretch
    /\ <<rz.res.w, rz.res.h>> # <<rz.w0, rz.h0>>

\* C11: when stretch is false and resize decides on a size (w, h) other than
\* the intrinsic (w0, h0), w differs from h*w0/h0 by at most one pixel or h
\* differs from w*h0/w0 by at most one pixel.
C11_AspectWithinOnePixel ==
    ScaledKeepingRatio =>
        \/ Abs(rz.res.w * rz.h0 - rz.res.h * rz.w0) <= rz.h0
        \/ Abs(rz.res.h * rz.w0 - rz.res.w * rz.h0) <= rz.w0

\* a non-stretching resize whose result is not exactly proportional: the
\* rounding of lines 161-162 / 165-166 happened
C11_Witness ==
    /\ ScaledKeepingRatio
    /\ rz.res.w * rz.h0 # rz.res.h * rz.w0
    /\ rz.res.w >= 1 /\ rz.res.h >= 1

\* A control whose name IMAGE_CONTROLS holds and whose value, when the name
\* has a value table, is in that table
KnownCtl(c) ==
    /\ ControlLetter(c.k) # ""
    /\ ControlCodes(c.k) # {} => (~c.num /\ \E e \in ControlCodes(c.k) : e[1] = c.s)
AllKnown(ctl) == \A i \in 1..Len(ctl) : KnownCtl(ctl[i])
IdInRange(ctl) ==
    \A i \in 1..Len(ctl) :
        ctl[i].k = "id" => (ctl[i].num /\ MIN_ID <= ctl[i].n /\ ctl[i].n <= MAX_ID)
\* the protocol letter of a control paired with the protocol code of its value
LetterCode(c) == <<ControlLetter(c.k), ControlValue(c)>>
\* no later control of the call has the protocol letter of the i-th
LastOfLetter(ctl, i) ==
    \A j \in (i + 1)..Len(ctl) : ControlLetter(ctl[j].k) # ControlLetter(ctl[i].k)

\* what C12 says of every call but for the key/value set of known controls
CodeFrameLaw ==
    /\ (AllKnown(enc.ctl) /\ IdInRange(enc.ctl)) =>
          /\ enc.code.err = ""
          /\ enc.payload = "" => enc.code.payload = ""
          /\ enc.payload = "/tmp/x.png" => enc.code.payload = "L3RtcC94LnBuZw=="
    /\ enc.ctl = TransmitDisplayPng =>
          enc.code.keys = {<<"a", "T">>, <<"f", "100">>, <<"t", "f">>, <<"i", "42">>}
    /\ ~AllKnown(enc.ctl) => (enc.code.err # "" /\ enc.code.keys = {})

AppliedMinW == NegativeColToPx(rz.args.min_w, term)
AppliedMinH == NegativeRowToPx(rz.args.min_h, term)
AppliedMaxW ==
    NegativeColToPx(IF rz.args.max_w = 0 THEN rz.w0 ELSE rz.args.max_w, term)
AppliedMaxH ==
    NegativeRowToPx(IF rz.args.max_h = 0 THEN rz.h0 ELSE rz.args.max_h, term)

\* C13: resize called with a minimum that exceeds the maximum applied on
\* either axis (unset maximum = intrinsic size, negative cell counts taken as
\* their pixel equivalent) fails at once with the contract error and decides
\* on no size.
C13_MinOverMaxFails ==
    (rz.called /\ (AppliedMinW > AppliedMaxW \/ AppliedMinH > AppliedMaxH)) =>
        rz.res.kind = "assert"

\* C18: for a cell of size S and content of size C <= S on the same axis,
\* _get_align gives, in pixels floored to whole cells, 0 for left/top,
\* floor((S - C) / 2) for center and S - C for right/bottom; the offset is
\* >= 0 and offset + C <= S.
C18_AlignOffsets ==
    (/\ sret.op \in AlignOps
     /\ sizes[sret.i].kind = sizes[sret.j].kind
     /\ Px(sizes[sret.j], term) <= Px(sizes[sret.i], term)) =>
        LET S    == Px(sizes[sret.i], term)
            C    == Px(sizes[sret.j], term)
            c    == CellNow(sizes[sret.i])
            want == CASE sret.op \in {"left", "top"} -> 0
                      [] sret.op = "center" -> (S - C) \div 2
                      [] OTHER -> S - C
        IN  /\ sret.res.kind = "Size"
            /\ sret.res.size.px = (want \div c) * c
            /\ sret.res.size.px >= 0
            /\ sret.res.size.px + C <= S


\* C14: with max_rows = M (M >= 1) show stops without raising once M rows
\* are filled: content is placed only at row indices 0 .. M-1, so at most
\* M * n cells are shown when every row holds n cells.
C14_MaxRowsStopsLayout ==
    grid.max_rows # 0 =>
        /\ \A p \in 1..Len(grid.placed) : grid.placed[p].row <= grid.max_rows - 1
        /\ (\A p \in 1..Len(grid.placed) : grid.placed[p].n = grid.placed[1].n) =>
               (Len(grid.placed) = 0 \/ Len(grid.placed) <= grid.max_rows * grid.placed[1].n)


\* C15: with raise_errors false the failure of one image cell is confined to
\* that cell: it is reported when print_errors is set and show goes on with
\* the later cells instead of raising; with raise_errors true the failure
\* aborts show and reaches the caller.
C15_CellFailureConfined ==
    grid.last.kind = "image" =>
        IF grid.raise_errors
        THEN grid.pc = "raised" /\ grid.err = "TypeError"
        ELSE /\ grid.pc # "raised"
             /\ grid.print_errors => grid.printed >= 1


\* Every cell laid out so far saw the same cells-per-row value.
ConstantCellsPerRow ==
    \A p \in 1..Len(grid.placed) : grid.placed[p].n = grid.placed[1].n

\* C16: show places cells in row-major order.  With a constant cells-per-row
\* value n >= 1 and no max_rows the k-th cell (k from 0) is laid out at
\* column k mod n and row k div n; 0 <= column < n at the start of every
\* cell, the column is reset to 0 exactly when the row is incremented, and
\* the row never decreases.
C16_RowMajorOrder ==
    (grid.max_rows = 0 /\ Len(grid.placed) > 0 /\ ConstantCellsPerRow) =>
        LET n == grid.placed[1].n
            K == Len(grid.placed)
            colAt(p) == IF p <= K THEN grid.placed[p].col ELSE grid.col
            rowAt(p) == IF p <= K THEN grid.placed[p].row ELSE grid.row
        IN  /\ n >= 1
            /\ \A p \in 1..(K + 1) :
                  /\ colAt(p) = (p - 1) % n
                  /\ rowAt(p) = (p - 1) \div n
                  /\ 0 <= colAt(p) /\ colAt(p) < n
            /\ \A p \in 1..K :
                  /\ rowAt(p + 1) >= rowAt(p)
                  /\ (rowAt(p + 1) = rowAt(p) + 1) <=> (n = 1 \/ colAt(p + 1) < colAt(p) + 1)
                  /\ rowAt(p + 1) = rowAt(p) + 1 => colAt(p + 1) = 0
                  /\ rowAt(p + 1) = rowAt(p) => colAt(p + 1) = colAt(p) + 1

\* Three cells were laid out two to a row from the terminal's width: the
\* third one started the second row.
C16_Witness ==
    /\ grid.max_rows = 0 /\ grid.max_cols = 0
    /\ Len(grid.placed) = 3 /\ ConstantCellsPerRow /\ grid.placed[1].n = 2
    /\ grid.placed[3].col = 0 /\ grid.placed[3].row = 1
    /\ grid.col = 1 /\ grid.row = 1


\* The columns of P pixels that fit a terminal W pixels wide whose cells are
\* c pixels wide, one cell being kept free, then forced even or odd.
FitsTerminal(g, t) ==
    LET fits == (t.px_width - CellPxWidth(t)) \div g.colsize.px
        n   == IF g.force_even THEN fits - (fits % 2)
               ELSE IF g.force_odd THEN fits - (1 - (fits % 2))
               ELSE fits
        low == IF g.force_even THEN 2 ELSE 1
    IN  IF n < low THEN low ELSE n

\* C17 as stated: without max_cols the cells-per-row value is computed once
\* per show and is the same for every cell, so a change of the terminal
\* width between two cells does not change where the row wraps.
C17_CellsPerRowOnce ==
    grid.max_cols = 0 =>
        \A p \in 1..Len(grid.placed) :
            /\ grid.placed[p].n = grid.placed[1].n
            /\ grid.placed[p].wrap <=> (grid.placed[p].col + 1 >= grid.placed[1].n)

\* C17, amended: without max_cols the cells-per-row value is computed anew
\* after every cell from the terminal metrics of that moment, and the row
\* wraps after a cell exactly when its column + 1 reaches that value.
C17_CellsPerRowEachCell ==
    grid.max_cols = 0 =>
        \A p \in 1..Len(grid.placed) :
            /\ grid.placed[p].n = FitsTerminal(grid, grid.placed[p].term)
            /\ grid.placed[p].wrap <=> (grid.placed[p].col + 1 >= grid.placed[p].n)

\* The terminal became narrower between the first and the second cell:
\* three cells fitted a row after the first, two after the second, and the
\* row wrapped after the second cell.
C17_Witness ==
    /\ grid.max_cols = 0 /\ Len(grid.placed) >= 2
    /\ grid.placed[1].term # grid.placed[2].term
    /\ grid.placed[1].n = 3 /\ grid.placed[2].n = 2
    /\ grid.placed[2].col = 1 /\ grid.placed[2].wrap


\* C19: for a text cell of n lines, n <= R, R the row height in whole cells
\* rounded up, _show_content moves the cursor down exactly R lines (top
\* padding + n + bottom padding = R) for every vertical alignment, and show
\* then moves it up exactly R lines.
C19_TextCellEndsAtRowBottom ==
    (grid.last.kind = "text" /\ grid.last.lines <= grid.last.R) =>
        /\ grid.last.down = grid.last.R
        /\ grid.last.up = grid.last.R


\* C20: the read loop of run_code stops only when the whole terminator, ESC
\* followed by a backslash, was read: the answer collected ends with ESC
\* and a backslash, and a backslash that does not follow ESC does not end
\* the read.
C20_StopsOnlyAtTerminator ==
    pc = "cancel" =>
        /\ Len(chars) >= 2
        /\ chars[Len(chars)] = BS
        /\ chars[Len(chars) - 1] = ESC


\* C21: the timeout can only be raised while a run_code call waits for its
\* reply.  When run_code has returned normally or raised KittyAnswerError no
\* alarm is pending, and no alarm ever runs out outside a waiting call, so
\* nothing that follows is interrupted by the timeout of an earlier call.
C21_NoAlarmLeftPending ==
    /\ (pc = "done" /\ outcome.kind \in {"returned", "KittyAnswerError"}) => timer = 0
    /\ pc \in {"idle", "done"} => timer = 0
    /\ ~hist.stray

\* A second call got its reply and was left after a first call had also
\* waited for one and been left by return or KittyAnswerError: no alarm of
\* either is pending.
C21_Witness ==
    /\ hist.calls = 2 /\ pc = "done"
    /\ ExpectsAnswer(req.ctl) /\ hist.backslash /\ hist.pending > 0
    /\ outcome.kind \in {"returned", "KittyAnswerError"} /\ outcome.answer # <<>>
    /\ timer = 0


\* The value cells_per_row returned is at least 1, at least 2 and even under
\* force_even, odd under force_odd alone.
FitValueOK ==
    /\ fit.ret >= 1
    /\ fit.force_even => (fit.ret >= 2 /\ fit.ret % 2 = 0)
    /\ (fit.force_odd /\ ~fit.force_even) => fit.ret % 2 = 1

\* A loop that ends has counted fewer than FitCap columns.
FitCapNotReached == fit.pc = "done" => fit.can_fit < FitCap

\* C22: with max_cols unset the column-counting loop of cells_per_row ends
\* for every non-empty column axis, with or without wrap_around, and every
\* terminal at least one cell wide, and the value returned is >= 1 (>= 2 and
\* even with force_even, odd with force_odd).
C22_FitLoopEnds ==
    /\ <>(fit.pc = "done")
    /\ [](fit.pc = "done" => FitValueOK)

=============================================================================
